---- MODULE Spec2Model ----
\* To-do MCP server (src/main.py): the task store kept in data/tasks.json,
\* the tool dispatcher _handle_call_tool and the widget renderer
\* _render_widget_html.
\*
\* Values are written as the JSON tokens the store file holds: a boolean is
\* "true" or "false", None is "null", a JSON string other than a task text
\* is one quoted token.  A task text is a sequence of one-character strings.
EXTENDS Integers, Sequences, FiniteSets, TLC

VARIABLES
    store,      \* content of DATA_FILE: the sequence under the key "tasks"
    nextId,     \* number of uuid4() values handed out so far
    clock,      \* datetime.utcnow() at the latest read of the clock
    call,       \* the CallToolRequest handled last (name and arguments)
    before,     \* content of DATA_FILE when that request arrived
    response,   \* the CallToolResult returned for it
    pc,         \* overlapping requests: position of each handler
    req,        \* overlapping requests: the request of each handler
    tasks,      \* overlapping requests: the TaskList each handler loaded
    resp,       \* overlapping requests: the result each handler returned
    rdata,      \* renderer: the tasks_data argument
    html        \* renderer: the returned document

vars == <<store, nextId, clock, call, before, response,
          pc, req, tasks, resp, rdata, html>>

\* ---------------------------------------------------------------- bounds
MaxTasks == 2
MaxClock == 1
MaxTextLen == 2
MaxRenderTasks == 2

\* ------------------------------------------------------------ JSON values
JTrue == "true"
JFalse == "false"
JNull == "null"
JYes == "\"yes\""
JDue == "\"2026-01-01\""
JNum == "7"
Absent == "absent"

Space == " "
Chars == {Space, "a", "<", "/"}

\* ---------------------------------------------------------------- models
\* class Task: the values pydantic accepts for each field, and what it
\* turns them into (lax mode: a str such as "yes" becomes True).
BoolStrings == {JYes}

TaskDoneOk(d) == d \in {JTrue, JFalse} \cup BoolStrings

TaskDone(d) == IF d \in BoolStrings THEN JTrue ELSE d

TaskDueOk(d) == d \in {JNull, JDue}

TaskOk(t) == TaskDoneOk(t.done) /\ TaskDueOk(t.due_date)

Task(t) == [t EXCEPT !.done = TaskDone(t.done)]

\* _read_store: json.load, then Task(**t) for every record.
ReadStoreRaises(doc) == \E i \in 1..Len(doc) : ~TaskOk(doc[i])

ReadStore(doc) == [i \in 1..Len(doc) |-> Task(doc[i])]

\* t.model_dump() for every task of a TaskList.
ModelDump(ts) == [i \in 1..Len(ts) |-> ts[i]]

\* Variant of WriteStore: the file is opened for appending.
WriteStoreAppend(doc, ts) == doc \o ModelDump(ts)

\* _write_store: the file is replaced by the dump of the list.
WriteStore(doc, ts) == ModelDump(ts)

\* --------------------------------------------------------------- strings
RECURSIVE LStrip(_)
LStrip(s) == IF s # <<>> /\ Head(s) = Space THEN LStrip(Tail(s)) ELSE s

RECURSIVE RStrip(_)
RStrip(s) ==
    IF s # <<>> /\ s[Len(s)] = Space THEN RStrip(SubSeq(s, 1, Len(s) - 1))
    ELSE s

\* str.strip()
Strip(s) == RStrip(LStrip(s))

\* s starts with the sequence pat at position i
MatchAt(s, pat, i) ==
    /\ i + Len(pat) - 1 <= Len(s)
    /\ \A k \in 1..Len(pat) : s[i + k - 1] = pat[k]

\* str.replace(old, new): leftmost non-overlapping occurrences
RECURSIVE ReplaceFrom(_, _, _, _)
ReplaceFrom(s, old, new, i) ==
    IF i > Len(s) THEN <<>>
    ELSE IF MatchAt(s, old, i)
         THEN new \o ReplaceFrom(s, old, new, i + Len(old))
         ELSE <<s[i]>> \o ReplaceFrom(s, old, new, i + 1)

Replace(s, old, new) == ReplaceFrom(s, old, new, 1)

Contains(s, pat) == \E i \in 1..Len(s) : MatchAt(s, pat, i)

\* -------------------------------------------------------------- renderer
WIDGET_ASSET_ROUTE == "/widget-assets"
WIDGET_ASSET_VERSION == "1"

ScriptOpen == "<script id=\"todo-data\" type=\"application/json\">"
ScriptClose == "</script>"

\* The template, cut into tokens: a brace is a token of its own, a field
\* name is one token, the text between them is one token.
TODO_WIDGET_HTML ==
    << "<!DOCTYPE html><html><head><link rel=\"stylesheet\" href=\"",
       "{", "CSS_PATH", "}",
       "\"></head><body><div id=\"todo-root\" data-widget-version=\"",
       "{", "WIDGET_VERSION", "}",
       "\"></div>",
       ScriptOpen, "{", "{", "TASKS_JSON", "}", "}", ScriptClose,
       "<script type=\"module\">import ",
       "{", "{", " renderTodoWidget ", "}", "}",
       " from \"", "{", "JS_PATH", "}", "\"; let payload = ",
       "{", "{", " tasks: [] ", "}", "}",
       ";</script></body></html>" >>

\* str.format(**fields): "{{" and "}}" become one brace, "{NAME}" becomes
\* the value of the field NAME.
RECURSIVE FormatFrom(_, _, _)
FormatFrom(t, fields, i) ==
    IF i > Len(t) THEN <<>>
    ELSE IF i < Len(t) /\ t[i] = "{" /\ t[i + 1] = "{"
         THEN <<"{">> \o FormatFrom(t, fields, i + 2)
    ELSE IF i < Len(t) /\ t[i] = "}" /\ t[i + 1] = "}"
         THEN <<"}">> \o FormatFrom(t, fields, i + 2)
    ELSE IF t[i] = "{"
         THEN <<fields[t[i + 1]]>> \o FormatFrom(t, fields, i + 3)
    ELSE <<t[i]>> \o FormatFrom(t, fields, i + 1)

Format(t, fields) == FormatFrom(t, fields, 1)

\* json.dumps of one task record, keys in model_dump order.
JsonTask(t) ==
    << "{", "\"id\": ", "\"", t.id, "\"", ", \"text\": ", "\"" >>
    \o t.text
    \o << "\"", ", \"done\": ", t.done,
          ", \"created_at\": ", "\"", ToString(t.created_at), "Z\"",
          ", \"due_date\": ", t.due_date, "}" >>

RECURSIVE JsonTasks(_, _)
JsonTasks(ts, i) ==
    IF i > Len(ts) THEN <<>>
    ELSE (IF i > 1 THEN <<", ">> ELSE <<>>) \o JsonTask(ts[i])
         \o JsonTasks(ts, i + 1)

\* json.dumps({"tasks": [...]})
JsonDumps(ts) == <<"{", "\"tasks\": ", "[">> \o JsonTasks(ts, 1) \o <<"]", "}">>

\* json.dumps(tasks_data).replace("</", "<\\/")
TasksJson(ts) == Replace(JsonDumps(ts), <<"<", "/">>, <<"<", "\\", "/">>)

\* The placeholder the renderer searches for after formatting.
Placeholder == <<"{", "{", "TASKS_JSON", "}", "}">>

WidgetFields ==
    [n \in {"CSS_PATH", "JS_PATH", "WIDGET_VERSION"} |->
        CASE n = "CSS_PATH" ->
                WIDGET_ASSET_ROUTE \o "/todo.css?v=" \o WIDGET_ASSET_VERSION
          [] n = "JS_PATH" ->
                WIDGET_ASSET_ROUTE \o "/todo.js?v=" \o WIDGET_ASSET_VERSION
          [] OTHER -> WIDGET_ASSET_VERSION]

\* TODO_WIDGET_HTML.format(CSS_PATH=..., JS_PATH=..., WIDGET_VERSION=...)
FormattedTemplate == Format(TODO_WIDGET_HTML, WidgetFields)

\* _render_widget_html(tasks_data)
RenderWidgetHtml(ts) == Replace(FormattedTemplate, Placeholder, TasksJson(ts))

\* ------------------------------------------------------------ dispatcher
\* A CallToolResult; raised means the handler let an exception escape
\* instead of returning a result.
NoResult ==
    [raised |-> FALSE, isError |-> FALSE, text |-> <<>>,
     structured |-> <<>>, meta |-> <<>>]

ErrorResult(txt) ==
    [raised |-> FALSE, isError |-> TRUE, text |-> txt,
     structured |-> <<>>, meta |-> <<>>]

\* _meta_with_widget(tasks_data): the embedded widget resource
MetaWithWidget(data) == <<RenderWidgetHtml(data)>>

OkResult(txt, data) ==
    [raised |-> FALSE, isError |-> FALSE, text |-> txt,
     structured |-> <<data>>, meta |-> MetaWithWidget(data)]

\* Outcome of a stretch of the try block: it raised exc, or it returned
\* result, or it got past _read_store with the TaskList ts in hand; file is
\* the content of DATA_FILE it leaves behind.
Raise(exc, file) ==
    [raised |-> TRUE, exc |-> exc, result |-> NoResult, file |-> file,
     loaded |-> FALSE, ts |-> <<>>]

Return(result, file) ==
    [raised |-> FALSE, exc |-> "", result |-> result, file |-> file,
     loaded |-> FALSE, ts |-> <<>>]

Loaded(ts, file) ==
    [raised |-> FALSE, exc |-> "", result |-> NoResult, file |-> file,
     loaded |-> TRUE, ts |-> ts]

\* uuid.uuid4(): the n-th identifier handed out
NewId(n) == "u" \o ToString(n)

\* args.get("text", "")
TextArg(c) == IF c.text.kind = "absent" THEN <<>> ELSE c.text.val

\* args.get("due_date")
DueArg(c) == IF c.due_date = Absent THEN JNull ELSE c.due_date

\* args.get("task_id"), as printed in the message
TaskIdArg(c) == IF c.task_id = Absent THEN "None" ELSE c.task_id

\* args.get("done", True)
DoneArg(c) == IF c.done = Absent THEN JTrue ELSE c.done

\* truth value of an argument in "completed if done else reopened"
Truthy(d) == d \in {JTrue, JYes}

\* Variant of GetTasks: the list that was read is written back.
GetTasksWriteBack(file) ==
    IF ReadStoreRaises(file) THEN Raise("ValidationError", file)
    ELSE Return(OkResult(<<"Here are your tasks!">>,
                         ModelDump(ReadStore(file))),
                WriteStore(file, ReadStore(file)))

\* branch tool_name == "get_tasks"
GetTasks(file) ==
    IF ReadStoreRaises(file) THEN Raise("ValidationError", file)
    ELSE Return(OkResult(<<"Here are your tasks!">>,
                         ModelDump(ReadStore(file))), file)

\* Variant of TextRejected: the text is checked without strip().
TextRejectedUnstripped(txt) == txt = <<>>

\* the text check of add_task after strip()
TextRejected(txt) == Strip(txt) = <<>>

\* Task(id=..., text=text, done=False, created_at=..., due_date=...)
NewTask(id, txt, now, due) ==
    [id |-> id, text |-> txt, done |-> JFalse, created_at |-> now,
     due_date |-> due]

\* tasks.tasks.append(new_task)
AppendTask(ts, new) == Append(ts, new)

\* branch tool_name == "add_task", up to and including _read_store()
AddTaskLoad(c, file) ==
    IF c.text.kind = "num" THEN Raise("AttributeError", file)
    ELSE IF TextRejected(TextArg(c))
         THEN Return(ErrorResult(<<"Error: Task text cannot be empty">>), file)
    ELSE IF ReadStoreRaises(file) THEN Raise("ValidationError", file)
    ELSE Loaded(ReadStore(file), file)

\* branch tool_name == "add_task", from Task(...) to the return
AddTaskSave(c, loaded, file, id, now) ==
    IF ~TaskDueOk(DueArg(c)) THEN Raise("ValidationError", file)
    ELSE LET new == NewTask(id, Strip(TextArg(c)), now, DueArg(c))
             ts == AppendTask(loaded, new)
         IN Return(OkResult(<<"Added task: ">> \o new.text, ModelDump(ts)),
                   WriteStore(file, ts))

\* the for loop of mark_done: index of the first task with that id, 0 if none
FindTask(ts, tid) ==
    IF \E i \in 1..Len(ts) : ts[i].id = tid
    THEN CHOOSE i \in 1..Len(ts) :
            /\ ts[i].id = tid
            /\ \A j \in 1..(i - 1) : ts[j].id # tid
    ELSE 0

\* task.done = done (no validation on assignment)
SetDone(ts, i, d) == [ts EXCEPT ![i].done = d]

NotFoundResult(c) ==
    ErrorResult(<<"Error: Task with ID ", TaskIdArg(c), " not found">>)

\* branch tool_name == "mark_done", up to and including _read_store()
MarkDoneLoad(c, file) ==
    IF ReadStoreRaises(file) THEN Raise("ValidationError", file)
    ELSE Loaded(ReadStore(file), file)

\* branch tool_name == "mark_done", from the for loop to the return
MarkDoneSave(c, loaded, file) ==
    LET i == FindTask(loaded, c.task_id)
    IN IF i = 0 THEN Return(NotFoundResult(c), file)
       ELSE LET ts == SetDone(loaded, i, DoneArg(c))
            IN Return(OkResult(<<"Task ",
                                 IF Truthy(DoneArg(c)) THEN "completed"
                                 ELSE "reopened", "!">>,
                               ModelDump(ts)),
                      WriteStore(file, ts))

\* the else branch
UnknownTool(c, file) ==
    Return(ErrorResult(<<"Unknown tool: ", c.name>>), file)

\* Variant of Except: the exception is raised again.
ExceptReraise(b) == Raise(b.exc, b.file)

\* except Exception as e
Except(b) == Return(ErrorResult(<<"Error: ", b.exc>>), b.file)

\* What the caller of the handler gets from the except clause: the result
\* it returned, or the exception that left the handler.
CallerSees(e) == [e EXCEPT !.result.raised = e.raised, !.raised = FALSE]

\* the try block from its start to the first return, raise or _read_store()
TryLoad(c, file) ==
    CASE c.name = "get_tasks" -> GetTasks(file)
      [] c.name = "add_task" -> AddTaskLoad(c, file)
      [] c.name = "mark_done" -> MarkDoneLoad(c, file)
      [] OTHER -> UnknownTool(c, file)

\* the try block from the statement after _read_store() to its end
TrySave(c, loaded, file, id, now) ==
    IF c.name = "add_task" THEN AddTaskSave(c, loaded, file, id, now)
    ELSE MarkDoneSave(c, loaded, file)

\* _handle_call_tool with the exception handler, in the two stretches
HandleLoad(c, file) ==
    LET b == TryLoad(c, file)
    IN IF b.raised THEN CallerSees(Except(b)) ELSE b

HandleSave(c, loaded, file, id, now) ==
    LET b == TrySave(c, loaded, file, id, now)
    IN IF b.raised THEN CallerSees(Except(b)) ELSE b

\* _handle_call_tool, run without interruption
HandleCallTool(c, file, id, now) ==
    LET l == HandleLoad(c, file)
    IN IF l.loaded THEN HandleSave(c, l.ts, file, id, now) ELSE l

\* ------------------------------------------------------------- requests
NoText == [kind |-> "absent", val |-> <<>>]

CallTexts == {<<>>, <<Space>>, <<Space, "a", Space>>}

TextArgs ==
    {NoText, [kind |-> "num", val |-> <<>>]}
    \cup {[kind |-> "str", val |-> s] : s \in CallTexts}

DueArgs == {Absent, JNull, JDue, JNum}

TaskIdArgs == {NewId(i) : i \in 1..MaxTasks} \cup {"nonexistent", Absent}

DoneArgs == {Absent, JTrue, JFalse, JNull, JYes}

Request(name, text, due, tid, done) ==
    [name |-> name, text |-> text, due_date |-> due, task_id |-> tid,
     done |-> done]

NoCall == Request("none", NoText, Absent, Absent, Absent)

\* ------------------------------------------- requests handled one by one
\* the two handlers of the claim about overlapping requests
Procs == {"p1", "p2"}

ConcIdle ==
    /\ pc = [p \in Procs |-> "idle"]
    /\ req = [p \in Procs |-> NoCall]
    /\ tasks = [p \in Procs |-> <<>>]
    /\ resp = [p \in Procs |-> NoResult]

RenderIdle == rdata = <<>> /\ html = <<>>

\* The module's start-up code writes {"tasks": []} when the file is missing.
Init ==
    /\ store = <<>>
    /\ nextId = 0
    /\ clock = 0
    /\ call = NoCall
    /\ before = <<>>
    /\ response = NoResult
    /\ ConcIdle
    /\ RenderIdle

Handle(c, now) ==
    \E r \in {HandleCallTool(c, store, NewId(nextId + 1), now)} :
       /\ call' = c
       /\ before' = store
       /\ response' = r.result
       /\ store' = r.file
       /\ nextId' = IF r.file # store /\ c.name = "add_task"
                    THEN nextId + 1 ELSE nextId
       /\ clock' = IF r.file # store /\ c.name = "add_task"
                   THEN now ELSE clock
       /\ UNCHANGED <<pc, req, tasks, resp, rdata, html>>

CallGetTasks ==
    \E c \in {Request("get_tasks", NoText, Absent, Absent, Absent)} :
        /\ c.name = "get_tasks"
        /\ Handle(c, clock)

CallAddTask ==
    /\ Len(store) < MaxTasks
    /\ \E t \in TextArgs, d \in DueArgs, n \in {clock, clock + 1} :
          /\ n <= MaxClock
          /\ Handle(Request("add_task", t, d, Absent, Absent), n)

CallMarkDone ==
    \E i \in TaskIdArgs, d \in DoneArgs :
        \E c \in {Request("mark_done", NoText, Absent, i, d)} :
            /\ c.name = "mark_done"
            /\ Handle(c, clock)

CallUnknown ==
    \E c \in {Request("delete_task", NoText, Absent, Absent, Absent)} :
        /\ c.name \notin {"get_tasks", "add_task", "mark_done"}
        /\ Handle(c, clock)

Next == CallGetTasks \/ CallAddTask \/ CallMarkDone \/ CallUnknown

Spec == Init /\ [][Next]_vars

\* ------------------------------------------------- overlapping requests
\* Two handlers share DATA_FILE.  Between a handler's _read_store() and
\* its _write_store() the other handler may read and write the file.
SeqIdle == call = NoCall /\ before = <<>> /\ response = NoResult

MaxIds == MaxTasks

ConcRequests ==
    {Request("get_tasks", NoText, Absent, Absent, Absent),
     Request("add_task", [kind |-> "str", val |-> <<Space, "a", Space>>],
             Absent, Absent, Absent)}
    \cup {Request("mark_done", NoText, Absent, NewId(i), Absent) :
            i \in 1..MaxIds}

AddsInFlight ==
    Cardinality({q \in Procs : pc[q] = "loaded" /\ req[q].name = "add_task"})

ConcInit ==
    /\ store = <<>>
    /\ nextId = 0
    /\ clock = 0
    /\ SeqIdle
    /\ ConcIdle
    /\ RenderIdle

\* The handler runs from the arrival of the request to the first return
\* or to the end of _read_store().
Begin(p) ==
    /\ pc[p] = "idle"
    /\ \E c \in ConcRequests :
          /\ c.name = "add_task" =>
                /\ Len(store) < MaxTasks
                /\ nextId + AddsInFlight < MaxIds
          /\ \E l \in {HandleLoad(c, store)} :
                /\ req' = [req EXCEPT ![p] = c]
                /\ pc' = [pc EXCEPT ![p] = IF l.loaded THEN "loaded" ELSE "done"]
                /\ tasks' = [tasks EXCEPT ![p] = l.ts]
                /\ resp' = [resp EXCEPT ![p] = l.result]
    /\ UNCHANGED <<store, nextId, clock, call, before, response, rdata, html>>

\* The handler runs from the statement after _read_store() to its return.
Finish(p) ==
    /\ pc[p] = "loaded"
    /\ \E now \in {clock, clock + 1} :
          /\ now <= MaxClock
          /\ req[p].name # "add_task" => now = clock
          /\ \E r \in {HandleSave(req[p], tasks[p], store,
                                  NewId(nextId + 1), now)} :
                /\ store' = r.file
                /\ resp' = [resp EXCEPT ![p] = r.result]
                /\ nextId' = IF req[p].name = "add_task" /\ ~r.result.isError
                             THEN nextId + 1 ELSE nextId
                /\ clock' = now
    /\ pc' = [pc EXCEPT ![p] = "done"]
    /\ tasks' = [tasks EXCEPT ![p] = <<>>]
    /\ UNCHANGED <<req, call, before, response, rdata, html>>

\* The result has been sent; the handler takes the next request.
Reply(p) ==
    /\ pc[p] = "done"
    /\ pc' = [pc EXCEPT ![p] = "idle"]
    /\ req' = [req EXCEPT ![p] = NoCall]
    /\ resp' = [resp EXCEPT ![p] = NoResult]
    /\ UNCHANGED <<store, nextId, clock, tasks, call, before, response,
                   rdata, html>>

ConcNext == \E p \in Procs : Begin(p) \/ Finish(p) \/ Reply(p)

ConcSpec == ConcInit /\ [][ConcNext]_vars

\* ------------------------------------------------- the renderer by itself
RenderTexts ==
    UNION {[1..n -> Chars] : n \in 1..MaxTextLen}

RenderTask(i, txt, d) ==
    [id |-> NewId(i), text |-> txt, done |-> d, created_at |-> 0,
     due_date |-> JNull]

RenderInputs ==
    UNION {{[i \in 1..n |-> RenderTask(i, f[i][1], f[i][2])] :
                f \in [1..n -> RenderTexts \X {JTrue, JFalse}]} :
           n \in 0..MaxRenderTasks}

RenderInit ==
    /\ rdata \in RenderInputs
    /\ html = <<>>
    /\ store = <<>>
    /\ nextId = 0
    /\ clock = 0
    /\ SeqIdle
    /\ ConcIdle

Render ==
    /\ html = <<>>
    /\ html' = RenderWidgetHtml(rdata)
    /\ UNCHANGED <<rdata, store, nextId, clock, call, before, response,
                   pc, req, tasks, resp>>

RenderNext == Render

RenderSpec == RenderInit /\ [][RenderNext]_vars

\* ---------------------------------------------------------------- claims
Ids(doc) == {doc[i].id : i \in 1..Len(doc)}

MarkDoneRequest(tid, d) == Request("mark_done", NoText, Absent, tid, d)

TextIsBlank(c) == c.text.kind \in {"absent", "str"} /\ Strip(TextArg(c)) = <<>>

TextIsValid(c) == c.text.kind = "str" /\ Strip(c.text.val) # <<>>

\* C1: an add_task call whose text is non-empty after trimming (and whose
\* due_date is absent or a string) leaves the persisted list equal to the
\* prior list followed by exactly one new task with done false.
C1_AddTaskAppendsOne ==
    (call.name = "add_task" /\ TextIsValid(call)
        /\ call.due_date \in {Absent, JDue})
    => /\ Len(store) = Len(before) + 1
       /\ SubSeq(store, 1, Len(before)) = before
       /\ store[Len(store)].done = JFalse

\* C2: an add_task call whose text is missing, empty or whitespace-only
\* leaves the persisted list unchanged and returns a result with the error
\* flag set.
C2_BlankTextRejected ==
    (call.name = "add_task" /\ TextIsBlank(call))
    => store = before /\ response.isError

C2_Witness ==
    /\ call.name = "add_task"
    /\ call.text = [kind |-> "str", val |-> <<Space>>]
    /\ before # <<>>
    /\ store = before
    /\ response.isError

\* C3: a mark_done call whose task_id matches no task of the persisted
\* list leaves the list unchanged and returns a result with the error flag
\* set whose text names the missing id.
C3_MissingIdRejected ==
    (call.name = "mark_done" /\ call.task_id \notin Ids(before))
    => /\ store = before
       /\ response.isError
       /\ \E k \in 1..Len(response.text) : response.text[k] = TaskIdArg(call)

\* C4: mark_done(id, done=true) directly followed by mark_done(id,
\* done=false), for the id of a task of the persisted list, leaves the list
\* as it was before the first call except that this task has done false.
C4_MarkDoneRoundTrip ==
    [][\A i \in 1..Len(before) :
          (/\ call = MarkDoneRequest(before[i].id, JTrue)
           /\ call' = MarkDoneRequest(before[i].id, JFalse))
          => store' = [before EXCEPT ![i].done = JFalse]]_vars

\* C5: get_tasks leaves the persisted list as it was, and a get_tasks call
\* directly after a get_tasks call returns the same structured payload.
C5_GetTasksReadOnly ==
    [][call'.name = "get_tasks"
       => /\ store' = store
          /\ call.name = "get_tasks"
                => response'.structured = response.structured]_vars

C5_Witness ==
    /\ call.name = "get_tasks"
    /\ store # <<>>
    /\ store = before
    /\ response.structured = <<ReadStore(store)>>

\* C6: the structured payload of a successful add_task or mark_done is the
\* persisted list after that call, and a get_tasks call directly after it
\* returns that same list.
C6_PayloadIsPersistedList ==
    [][(/\ call.name \in {"add_task", "mark_done"}
        /\ ~response.isError
        /\ call'.name = "get_tasks")
       => /\ response.structured = <<store>>
          /\ response'.structured = response.structured]_vars

\* C7: the document the renderer returns holds, between the tags of the
\* todo-data script, the JSON encoding of the list with every "</" escaped,
\* and the placeholder of the template is gone.
C7_WidgetEmbedsTasks ==
    html # <<>>
    => /\ Contains(html, <<ScriptOpen>> \o TasksJson(rdata) \o <<ScriptClose>>)
       /\ ~Contains(TasksJson(rdata), <<"<", "/">>)
       /\ Replace(TasksJson(rdata), <<"<", "\\", "/">>, <<"<", "/">>)
            = JsonDumps(rdata)
       /\ ~Contains(html, <<"TASKS_JSON">>)

\* C8: every call returns a result and never raises; an unknown operation
\* name, a rejected text, a missing id and a failure while loading or while
\* building the new task each give a result with the error flag set, a text
\* block and no structured payload.
FailedCall ==
    \/ call.name \notin {"get_tasks", "add_task", "mark_done"}
    \/ call.name = "add_task" /\ ~TextIsValid(call)
    \/ call.name = "add_task" /\ ~TaskDueOk(DueArg(call))
    \/ call.name = "mark_done" /\ call.task_id \notin Ids(before)
    \/ call.name \in {"get_tasks", "mark_done"} /\ ReadStoreRaises(before)
    \/ call.name = "add_task" /\ TextIsValid(call) /\ ReadStoreRaises(before)

C8_AlwaysAResult ==
    call # NoCall
    => /\ ~response.raised
       /\ FailedCall => /\ response.isError
                        /\ response.text # <<>>
                        /\ response.structured = <<>>

C8_Witness ==
    /\ call.name = "mark_done"
    /\ call.task_id \in Ids(before)
    /\ ReadStoreRaises(before)
    /\ response.isError
    /\ ~response.raised

\* C9: with two overlapping handlers, a successful save leaves in the file
\* the list the saving handler loaded plus its own change only, whatever
\* was written to the file since it loaded; so a handler can have returned
\* success for a task that the persisted list no longer holds.
C9_LaterSaveOverwrites ==
    [][\A p \in Procs :
          (pc[p] = "loaded" /\ pc'[p] = "done" /\ ~resp'[p].isError)
          => /\ resp'[p].structured = <<store'>>
             /\ IF req[p].name = "add_task"
                THEN /\ Len(store') > 0
                     /\ store' = Append(tasks[p], store'[Len(store')])
                ELSE /\ Len(store') = Len(tasks[p])
                     /\ \A i \in 1..Len(store') :
                           \/ store'[i] = tasks[p][i]
                           \/ store'[i].id = req[p].task_id]_vars

C9_LostUpdate ==
    \E p \in Procs, q \in Procs :
        /\ p # q
        /\ pc[p] = "done" /\ pc[q] = "done"
        /\ req[p].name = "add_task" /\ ~resp[p].isError
        /\ req[q].name \in {"add_task", "mark_done"} /\ ~resp[q].isError
        /\ LET payload == resp[p].structured[1]
           IN payload[Len(payload)].id \notin Ids(store)

\* C10: after any sequence of calls, every task of the persisted list has a
\* boolean done field and the next load succeeds.
C10_DoneIsBoolean ==
    /\ \A i \in 1..Len(store) : store[i].done \in {JTrue, JFalse}
    /\ ~ReadStoreRaises(store)

\* -------------------- the same properties on lists that match the schema
\* Every task of the list has a boolean done field.
SchemaValid(doc) == \A i \in 1..Len(doc) : doc[i].done \in {JTrue, JFalse}

AddTaskOnValidList == SchemaValid(before) => C1_AddTaskAppendsOne

MissingIdOnValidList == SchemaValid(before) => C3_MissingIdRejected

MarkDoneRoundTripOnValidList ==
    [][\A i \in 1..Len(before) :
          (/\ SchemaValid(before)
           /\ call = MarkDoneRequest(before[i].id, JTrue)
           /\ call' = MarkDoneRequest(before[i].id, JFalse))
          => store' = [before EXCEPT ![i].done = JFalse]]_vars

PayloadOnValidList ==
    [][(/\ call.name \in {"add_task", "mark_done"}
        /\ ~response.isError
        /\ SchemaValid(store)
        /\ call'.name = "get_tasks")
       => /\ response.structured = <<store>>
          /\ response'.structured = response.structured]_vars

====
